---- MODULE Spec2Model ----
(***************************************************************************)
(* Job tracking of the video generator front end: the StatusPolling        *)
(* component (status-polling.tsx), the chat-history store                  *)
(* (chat-history-context.tsx) and the VideoGenerator handlers that         *)
(* reconcile poller callbacks into the store (video-generator.tsx).        *)
(*                                                                         *)
(* React is modelled as it schedules: a handler (timer callback, fetch     *)
(* continuation, submit continuation) runs to completion and queues state  *)
(* updates; the re-render that commits them, runs effect cleanups and      *)
(* re-runs effects is a later task (action Render).  Timer callbacks and   *)
(* fetch continuations may run between a handler and that re-render.       *)
(* Timeline texts drop the wall-clock prefix; an entry keeps the job it    *)
(* was written for in the field job, which the text itself does not hold.  *)
(***************************************************************************)
EXTENDS Integers, Sequences, FiniteSets, Bags, TLC

VARIABLES
    sessions,            \* ChatHistoryProvider: useState<ChatSession[]>
    activeSessionId,     \* ChatHistoryProvider: useState<string | null> (0 = null)
    activeJobId,         \* VideoGenerator: useState activeJobId (0 = null)
    activeJobSessionId,  \* VideoGenerator: useState activeJobSessionId (0 = null)
    isSubmitting,        \* VideoGenerator: useState isSubmitting
    submitSession,       \* handleSubmit: local sessionId held across the await (0 = none)
    nextId,              \* [job, session]: ids handed out so far; clock: Date.now()
    mounted,             \* a StatusPolling instance is mounted
    inst,                \* number of the mounted (or last mounted) instance
    pJob,                \* StatusPolling prop jobId as last rendered
    pSession,            \* StatusPolling prop sessionId as last rendered
    pStatus,             \* StatusPolling: useState status (<<>> = null)
    isPolling,           \* StatusPolling: useState isPolling
    failureCount,        \* StatusPolling: useState failureCount
    lastStatusRef,       \* StatusPolling: useRef, one per instance
    timer,               \* the interval of the current effect run (<<>> = none)
    effDeps,             \* dependency values seen by the last effect run
    dirty,               \* a StatusPolling state update awaits its re-render
    ctxDirty,            \* a host or context change awaits its re-render
    inflight,            \* status fetches issued and not yet settled
    calls,               \* per job: the onSuccess/onError invocations made by the poller
    counters,            \* fetches issued and store calls made, for the bounds
    consec,              \* per job: failed responses since the last successful one
    lateReq,             \* per job: a fetch was issued after a terminal callback
    ev,                  \* the store call that ran last
    storage              \* localStorage: the values under STORAGE_KEY and ACTIVE_KEY

storeVars == <<sessions, activeSessionId>>
hostVars  == <<activeJobId, activeJobSessionId, isSubmitting, submitSession, nextId>>
pollVars  == <<mounted, inst, pJob, pSession, pStatus, isPolling, failureCount,
               lastStatusRef, timer, effDeps, dirty, ctxDirty, inflight>>
ghostVars == <<calls, counters, consec, lateReq>>
vars == <<storeVars, hostVars, pollVars, ghostVars, ev, storage>>

\* ------------------------------------------------------------------ bounds

MaxJobs == 2
MaxFetches == 3
MaxStoreOps == 4

\* ------------------------------------------------------- program constants

HistoryCap == 50
FailureThreshold == 10

Null == "<null>"

\* -------------------------------------------------------------------- store

Last(s) == s[Len(s)]

Range(s) == {s[i] : i \in 1..Len(s)}

\* { ...old, ...new }
Merge(old, new) ==
    [f \in (DOMAIN old) \cup (DOMAIN new) |->
        IF f \in DOMAIN new THEN new[f] ELSE old[f]]

\* prev.findIndex((item) => item.id === id); 0 stands for -1
FindIndex(S, id) ==
    IF \E i \in 1..Len(S) : S[i].id = id
    THEN CHOOSE i \in 1..Len(S) :
            S[i].id = id /\ \A k \in 1..(i - 1) : S[k].id # id
    ELSE 0

\* h.slice(-n)
SliceLast(h, n) ==
    IF Len(h) <= n THEN h ELSE SubSeq(h, Len(h) - n + 1, Len(h))

createSessionDup(S, session) == <<session>> \o S

\* a createSession that puts an unseen session behind the others
createSessionLast(S, session) ==
    LET existingIndex == FindIndex(S, session.id)
    IN  IF existingIndex # 0
        THEN [S EXCEPT ![existingIndex] = Merge(S[existingIndex], session)]
        ELSE Append(S, session)

createSession(S, session) ==
    LET existingIndex == FindIndex(S, session.id)
    IN  IF existingIndex # 0
        THEN [S EXCEPT ![existingIndex] = Merge(S[existingIndex], session)]
        ELSE <<session>> \o S

appendStatusNoCap(S, id, status) ==
    [i \in 1..Len(S) |->
        IF S[i].id = id
        THEN [S[i] EXCEPT !.statusHistory = Append(S[i].statusHistory, status)]
        ELSE S[i]]

appendStatus(S, id, status) ==
    [i \in 1..Len(S) |->
        IF S[i].id = id
        THEN [S[i] EXCEPT !.statusHistory =
                SliceLast(Append(S[i].statusHistory, status), HistoryCap)]
        ELSE S[i]]

\* an update that merges the payload into every session
updateSessionAll(S, id, payload) == [i \in 1..Len(S) |-> Merge(S[i], payload)]

updateSession(S, id, payload) ==
    [i \in 1..Len(S) |-> IF S[i].id = id THEN Merge(S[i], payload) ELSE S[i]]

getSessionById(S, id) ==
    LET i == FindIndex(S, id) IN IF i = 0 THEN <<>> ELSE <<S[i]>>

\* ------------------------------------------------------------ persistence
\* What localStorage holds under STORAGE_KEY, as readStorage sees it: no item,
\* a text JSON.parse rejects, or a JSON document.  A document is an array of
\* elements or another value; an element is a session object or something
\* else (null, a number, an object without the session fields).

Absent == [kind |-> "absent"]

Unparsable == [kind |-> "text"]

JsonValue(t) == [kind |-> "json", doc |-> [t |-> t]]

JsonArray(items) == [kind |-> "json", doc |-> [t |-> "array", items |-> items]]

JsonSession(session) == [t |-> "session", v |-> session]

JsonOther(t) == [t |-> t]

\* JSON.stringify(sessions)
Stringify(S) ==
    JsonArray([i \in 1..Len(S) |->
                IF "id" \in DOMAIN S[i] THEN JsonSession(S[i]) ELSE S[i]])

\* an element as JSON.parse hands it back
Parsed(item) == IF item.t = "session" THEN item.v ELSE item

\* the collection holds session objects only
WellFormed(S) == \A i \in 1..Len(S) : "id" \in DOMAIN S[i]

\* a sort step that leaves the order as it is
InsertLast(x, T) == Append(T, x)

\* Array.prototype.sort with (a, b) => b.createdAt - a.createdAt on session
\* objects: stable, newest first
InsertDesc(x, T) ==
    LET k == Cardinality({i \in 1..Len(T) : T[i].createdAt >= x.createdAt})
    IN  SubSeq(T, 1, k) \o <<x>> \o SubSeq(T, k + 1, Len(T))

RECURSIVE SortDesc(_)
SortDesc(S) ==
    IF S = <<>> THEN <<>>
    ELSE InsertDesc(Last(S), SortDesc(SubSeq(S, 1, Len(S) - 1)))

\* readStorage: a missing item gives []; a JSON.parse error, .sort on a value
\* that is no array, and .createdAt of a null element (the comparator runs
\* once the array has two elements) throw inside the try and give []; on
\* elements without createdAt the comparator yields NaN and the array comes
\* back as it is
readStorage(raw) ==
    IF raw.kind # "json" THEN <<>>
    ELSE IF raw.doc.t # "array" THEN <<>>
    ELSE LET items == raw.doc.items
             parsed == [i \in 1..Len(items) |-> Parsed(items[i])]
         IN  IF \A i \in 1..Len(items) : items[i].t = "session"
             THEN SortDesc(parsed)
             ELSE IF Len(items) >= 2 /\ \E i \in 1..Len(items) : items[i].t = "null"
             THEN <<>>
             ELSE parsed

\* an effect that writes the pointer whatever it is and never removes the item
ActiveItemKept(active) == <<active>>

\* what the second persistence effect leaves under ACTIVE_KEY: the id when
\* activeSessionId is truthy (setItem), no item otherwise (removeItem)
ActiveItem(active) == IF active # 0 THEN <<active>> ELSE <<>>

\* window.localStorage.getItem(ACTIVE_KEY): the stored id, or null
readActive(item) == IF item = <<>> THEN 0 ELSE item[1]

\* a write that stores the empty collection
PersistedEmpty(S, active) == [history |-> Stringify(<<>>), active |-> ActiveItem(active)]

\* both persistence effects of ChatHistoryProvider (lines 55-67)
Persisted(S, active) == [history |-> Stringify(S), active |-> ActiveItem(active)]

\* The job map of a session and its messages: the provider functions the
\* newer VideoGenerator destructures (registerJob, updateJob, appendJobStatus,
\* appendMessage), each a prev.map over the sessions like updateSession.
registerJob(S, sessionId, job) ==
    [i \in 1..Len(S) |->
        IF S[i].id = sessionId
        THEN [S[i] EXCEPT !.jobs =
                [j \in (DOMAIN S[i].jobs) \cup {job.id} |->
                    IF j = job.id
                    THEN (IF j \in DOMAIN S[i].jobs
                          THEN Merge(S[i].jobs[j], job) ELSE job)
                    ELSE S[i].jobs[j]]]
        ELSE S[i]]

updateJob(S, sessionId, jobId, payload) ==
    [i \in 1..Len(S) |->
        IF S[i].id = sessionId /\ jobId \in DOMAIN S[i].jobs
        THEN [S[i] EXCEPT !.jobs[jobId] = Merge(S[i].jobs[jobId], payload)]
        ELSE S[i]]

appendJobStatus(S, sessionId, jobId, status, progress) ==
    [i \in 1..Len(S) |->
        IF S[i].id = sessionId /\ jobId \in DOMAIN S[i].jobs
        THEN [S[i] EXCEPT !.jobs[jobId].history =
                Append(@, [status |-> status, progress |-> progress])]
        ELSE S[i]]

appendMessage(S, sessionId, message) ==
    [i \in 1..Len(S) |->
        IF S[i].id = sessionId
        THEN [S[i] EXCEPT !.messages = Append(@, message)]
        ELSE S[i]]

\* ------------------------------------------------------- timeline entries

Entry(kind, job, status, progress) ==
    [kind |-> kind, job |-> job, status |-> status, progress |-> progress]

\* a ChatSession as ensureSession and handleJobCreated build it
NewSession(id, createdAt, prompt, history) ==
    [id |-> id, prompt |-> prompt, createdAt |-> createdAt, videoUrl |-> Null,
     statusHistory |-> history, messages |-> <<>>, jobId |-> 0, jobs |-> <<>>]

\* ---------------------------------------------------- the store on its own
\* The provider's three mutators driven by every caller the components have,
\* on collections as a reload can hand them back (histories of 0, 49 and 50
\* entries).

StoreIds == {1, 2}
StoreTexts == {Entry("status", 0, "QUEUED", ""), Entry("retrying", 0, "RETRYING", "Failed to fetch status")}
StoreHistories == {<<>>, <<Entry("queued", 0, "Queued job", "")>>}
StorePayloads == {[videoUrl |-> "u1"], [prompt |-> "p2"], [jobId |-> 1]}

StoredEntry(i) ==
    IF i % 3 = 0 THEN Entry("status", 0, "QUEUED", "")
    ELSE IF i % 3 = 1 THEN Entry("status", 0, "POLLING_CLIPS", "p")
    ELSE Entry("retrying", 0, "RETRYING", "Failed to fetch status")

StoredHistory(n) == [i \in 1..n |-> StoredEntry(i)]

StoredCollections ==
    { <<>>,
      <<NewSession(1, 1, "p1", StoredHistory(HistoryCap - 1))>>,
      <<NewSession(2, 2, "p1", StoredHistory(HistoryCap)),
        NewSession(1, 1, "p1", <<>>)>> }

IdleHost ==
    /\ activeJobId = 0
    /\ activeJobSessionId = 0
    /\ isSubmitting = FALSE
    /\ submitSession = 0

IdlePoller ==
    /\ mounted = FALSE
    /\ inst = 0
    /\ pJob = 0
    /\ pSession = 0
    /\ pStatus = <<>>
    /\ isPolling = FALSE
    /\ failureCount = 0
    /\ lastStatusRef = <<>>
    /\ timer = <<>>
    /\ effDeps = <<>>
    /\ dirty = FALSE
    /\ ctxDirty = FALSE
    /\ inflight = EmptyBag

NoGhost ==
    /\ calls = [j \in 1..MaxJobs |-> <<>>]
    /\ counters = [fetches |-> 0, ops |-> 0]
    /\ consec = [j \in 1..MaxJobs |-> 0]
    /\ lateReq = [j \in 1..MaxJobs |-> FALSE]
    /\ ev = [op |-> "init"]

StoreInit ==
    /\ sessions \in StoredCollections
    /\ activeSessionId \in {0} \cup {sessions[i].id : i \in 1..Len(sessions)}
    /\ nextId = [job |-> 0, session |-> Len(sessions), clock |-> Len(sessions)]
    /\ IdleHost
    /\ IdlePoller
    /\ NoGhost
    /\ storage = Persisted(sessions, activeSessionId)

StoreStep(op, id) ==
    /\ counters.ops < MaxStoreOps
    /\ counters' = [counters EXCEPT !.ops = @ + 1]
    /\ ev' = [op |-> op, id |-> id]
    /\ UNCHANGED storage
    /\ UNCHANGED <<activeJobId, activeJobSessionId, isSubmitting, submitSession>>
    /\ UNCHANGED <<pollVars, calls, consec, lateReq>>

StoreCreate(id, history) ==
    /\ StoreStep("createSession", id)
    /\ sessions' = createSession(sessions,
                        NewSession(id, nextId.clock + 1, "p1", history))
    /\ activeSessionId' = id
    /\ nextId' = [nextId EXCEPT !.clock = @ + 1]

StoreAppend(id, status) ==
    /\ StoreStep("appendStatus", id)
    /\ sessions' = appendStatus(sessions, id, status)
    /\ UNCHANGED <<activeSessionId, nextId>>

StoreUpdate(id, payload) ==
    /\ StoreStep("updateSession", id)
    /\ sessions' = updateSession(sessions, id, payload)
    /\ UNCHANGED <<activeSessionId, nextId>>

StoreNext ==
    \/ \E id \in StoreIds, h \in StoreHistories : StoreCreate(id, h)
    \/ \E id \in StoreIds, t \in StoreTexts : StoreAppend(id, t)
    \/ \E id \in StoreIds, p \in StorePayloads : StoreUpdate(id, p)

StoreSpec == StoreInit /\ [][StoreNext]_vars

SessionIds(S) == [i \in 1..Len(S) |-> S[i].id]

HistoryOf(S, id) == S[FindIndex(S, id)].statusHistory

\* C9: every session's statusHistory holds at most 50 entries, and appendStatus
\* on a history of 50 entries yields its entries 2..50 in order, then the new one.
C9_HistoryCapped ==
    /\ [](\A i \in 1..Len(sessions) : Len(sessions[i].statusHistory) <= HistoryCap)
    /\ [][(/\ ev'.op = "appendStatus"
           /\ FindIndex(sessions, ev'.id) # 0
           /\ Len(HistoryOf(sessions, ev'.id)) = HistoryCap)
          => (/\ Len(HistoryOf(sessions', ev'.id)) = HistoryCap
              /\ SubSeq(HistoryOf(sessions', ev'.id), 1, HistoryCap - 1)
                    = SubSeq(HistoryOf(sessions, ev'.id), 2, HistoryCap)
              /\ Last(HistoryOf(sessions', ev'.id)) \in StoreTexts)]_vars

\* a full history has just taken one more entry and evicted its oldest
C9_Witness ==
    /\ ev.op = "appendStatus"
    /\ FindIndex(sessions, ev.id) # 0
    /\ Len(HistoryOf(sessions, ev.id)) = HistoryCap
    /\ HistoryOf(sessions, ev.id)[1] # StoredEntry(1)
    /\ Last(HistoryOf(sessions, ev.id)) \in StoreTexts

\* C10: no two sessions of the collection share an id; createSession on an id
\* already present merges in place (same length, same ids at the same places,
\* the new fields taken), on an unseen id it adds exactly one entry in front.
C10_UniqueIds ==
    /\ [](\A i, k \in 1..Len(sessions) : sessions[i].id = sessions[k].id => i = k)
    /\ [][ev'.op = "createSession" =>
            IF FindIndex(sessions, ev'.id) # 0
            THEN /\ SessionIds(sessions') = SessionIds(sessions)
                 /\ \A i \in 1..Len(sessions) :
                        IF sessions[i].id = ev'.id
                        THEN /\ sessions'[i].createdAt = nextId'.clock
                             /\ sessions'[i].statusHistory \in StoreHistories
                        ELSE sessions'[i] = sessions[i]
            ELSE /\ Len(sessions') = Len(sessions) + 1
                 /\ sessions'[1].id = ev'.id
                 /\ SubSeq(sessions', 2, Len(sessions')) = sessions]_vars

\* createSession has run on an id that was present, in a collection of two
C10_Witness ==
    /\ ev.op = "createSession"
    /\ Len(sessions) = 2
    /\ \E i \in 1..Len(sessions) :
          sessions[i].id = ev.id /\ sessions[i].createdAt = nextId.clock
                                 /\ sessions[i].createdAt > Len(sessions)


\* h2 is h1 minus a prefix that only the cap can take away, then zero or more
\* new entries
GrownFrom(h1, h2) ==
    \E k \in 0..Len(h1) :
        /\ Len(h2) >= Len(h1) - k
        /\ SubSeq(h2, 1, Len(h1) - k) = SubSeq(h1, k + 1, Len(h1))
        /\ k > 0 => Len(h2) = HistoryCap

\* C11: every store operation leaves each session's statusHistory equal to its
\* previous value, possibly minus a prefix evicted by the 50-entry cap, followed
\* by zero or more new entries.
C11_HistoryMonotone ==
    [][\A id \in StoreIds :
        (FindIndex(sessions, id) # 0 /\ FindIndex(sessions', id) # 0)
        => GrownFrom(HistoryOf(sessions, id), HistoryOf(sessions', id))]_vars


\* ------------------------------------------------ the store and its storage
\* The provider started on whatever localStorage holds, its mutators, the
\* commit that runs the persistence effects, and a reload of the page.

PersistCollections ==
    { <<>>,
      <<NewSession(1, 1, "p1", <<>>)>>,
      <<NewSession(2, 2, "p1", <<Entry("queued", 0, "Queued job", "")>>),
        NewSession(1, 1, "p1", <<>>)>> }

RawStorages ==
    { Absent, Unparsable, JsonValue("null"), JsonValue("object"),
      JsonArray(<<JsonOther("null")>>),
      JsonArray(<<JsonOther("null"), JsonOther("null")>>),
      JsonArray(<<JsonOther("number"), JsonOther("number")>>),
      JsonArray(<<JsonOther("object")>>) }
    \cup {Stringify(S) : S \in PersistCollections}

\* the poller and the host play no part
PersistFrame ==
    /\ UNCHANGED <<activeJobId, activeJobSessionId, isSubmitting, submitSession>>
    /\ UNCHANGED <<mounted, inst, pJob, pSession, pStatus, isPolling, failureCount,
                   lastStatusRef, timer, effDeps, dirty, inflight>>
    /\ UNCHANGED <<calls, consec, lateReq>>

\* useState(() => readStorage()) and useState(() => getItem(ACTIVE_KEY))
PersistInit ==
    /\ storage \in [history : RawStorages, active : {<<>>, <<1>>}]
    /\ sessions = readStorage(storage.history)
    /\ activeSessionId = readActive(storage.active)
    /\ nextId = [job |-> 0, session |-> 2, clock |-> 2]
    /\ IdleHost
    /\ mounted = FALSE
    /\ inst = 0
    /\ pJob = 0
    /\ pSession = 0
    /\ pStatus = <<>>
    /\ isPolling = FALSE
    /\ failureCount = 0
    /\ lastStatusRef = <<>>
    /\ timer = <<>>
    /\ effDeps = <<>>
    /\ dirty = FALSE
    /\ ctxDirty = TRUE
    /\ inflight = EmptyBag
    /\ calls = [j \in 1..MaxJobs |-> <<>>]
    /\ counters = [fetches |-> 0, ops |-> 0]
    /\ consec = [j \in 1..MaxJobs |-> 0]
    /\ lateReq = [j \in 1..MaxJobs |-> FALSE]
    /\ ev = [op |-> "boot", raw |-> storage.history]

\* a mutator called through the context: setSessions hands React a new array
PersistMutate(op, id) ==
    /\ WellFormed(sessions)
    /\ counters.ops < MaxStoreOps
    /\ counters' = [counters EXCEPT !.ops = @ + 1]
    /\ ev' = [op |-> op, id |-> id]
    /\ ctxDirty' = TRUE
    /\ UNCHANGED storage
    /\ PersistFrame

PersistCreate(id) ==
    /\ PersistMutate("createSession", id)
    /\ sessions' = createSession(sessions, NewSession(id, nextId.clock + 1, "p1", <<>>))
    /\ activeSessionId' = id
    /\ nextId' = [nextId EXCEPT !.clock = @ + 1]

PersistAppend(id, status) ==
    /\ PersistMutate("appendStatus", id)
    /\ sessions' = appendStatus(sessions, id, status)
    /\ UNCHANGED <<activeSessionId, nextId>>

PersistUpdate(id, payload) ==
    /\ PersistMutate("updateSession", id)
    /\ sessions' = updateSession(sessions, id, payload)
    /\ UNCHANGED <<activeSessionId, nextId>>

\* setActiveSession(id): ChatSessionPage calls it with the id of the route it
\* shows, whatever that id is; the provider's API also takes null
PersistSetActive(id) ==
    /\ counters.ops < MaxStoreOps
    /\ counters' = [counters EXCEPT !.ops = @ + 1]
    /\ activeSessionId' = id
    /\ ev' = [op |-> "setActiveSession", id |-> id]
    /\ ctxDirty' = TRUE
    /\ UNCHANGED <<sessions, nextId, storage>>
    /\ PersistFrame

\* the commit of the provider's re-render: both persistence effects run
PersistCommit ==
    /\ ctxDirty
    /\ storage' = Persisted(sessions, activeSessionId)
    /\ ctxDirty' = FALSE
    /\ ev' = [op |-> "persist"]
    /\ UNCHANGED <<sessions, activeSessionId, nextId, counters>>
    /\ PersistFrame

\* the page is loaded again: the provider starts from localStorage
PersistRestart ==
    /\ counters.ops < MaxStoreOps
    /\ counters' = [counters EXCEPT !.ops = @ + 1]
    /\ sessions' = readStorage(storage.history)
    /\ activeSessionId' = readActive(storage.active)
    /\ ctxDirty' = TRUE
    /\ ev' = [op |-> "restart", raw |-> storage.history,
              before |-> sessions, synced |-> ~ctxDirty]
    /\ UNCHANGED <<storage, nextId>>
    /\ PersistFrame

PersistNext ==
    \/ \E id \in StoreIds : PersistCreate(id)
    \/ \E id \in StoreIds, t \in StoreTexts : PersistAppend(id, t)
    \/ \E id \in StoreIds, p \in StorePayloads : PersistUpdate(id, p)
    \/ \E id \in {0} \cup StoreIds : PersistSetActive(id)
    \/ PersistCommit
    \/ PersistRestart

PersistSpec == PersistInit /\ [][PersistNext]_vars


SortedDesc(S) ==
    \A i, k \in 1..Len(S) : i < k => S[i].createdAt >= S[k].createdAt

\* the same sessions with the same field values, in whatever order
SameSessions(S, T) ==
    /\ Len(S) = Len(T)
    /\ \A i \in 1..Len(S) : \E k \in 1..Len(T) : T[k] = S[i]
    /\ \A k \in 1..Len(T) : \E i \in 1..Len(S) : S[i] = T[k]

\* C15: a restart that finds the collection persisted hands back exactly the
\* sessions, with the field values, that were in memory before it, ordered by
\* createdAt descending.
C15_RestartRoundTrip ==
    (ev.op = "restart" /\ ev.synced /\ WellFormed(ev.before))
    => /\ SameSessions(ev.before, sessions)
       /\ SortedDesc(sessions)

\* a restart came back with both sessions, in another order than memory held
\* them (createSession had given the older entry a newer createdAt in place)
C15_Witness ==
    /\ ev.op = "restart"
    /\ ev.synced
    /\ Len(sessions) = 2
    /\ WellFormed(sessions)
    /\ sessions # ev.before
    /\ SameSessions(ev.before, sessions)

\* C16: once the commit that follows the store mutations has run, localStorage
\* holds the serialization of the collection in memory.
C16_StorageInSync ==
    ~ctxDirty => storage.history = Stringify(sessions)

\* mutations were made and committed, and the stored document is the
\* serialization of a collection that is not the one the provider started with
C16_Witness ==
    /\ ev.op = "persist"
    /\ counters.ops >= 2
    /\ Len(sessions) = 2
    /\ WellFormed(sessions)
    /\ sessions[1].statusHistory # <<>>
    /\ sessions[2].videoUrl = "u1"
    /\ storage.history = Stringify(sessions)

\* the stored item is the JSON of an array of session objects
IsSessionsArray(raw) ==
    /\ raw.kind = "json"
    /\ raw.doc.t = "array"
    /\ \A i \in 1..Len(raw.doc.items) : raw.doc.items[i].t = "session"

\* C17: a load that finds no item, a text that is no JSON, or JSON that is no
\* array of sessions starts the store with the empty collection.
C17_LoadNeverFails ==
    (ev.op \in {"boot", "restart"} /\ ~IsSessionsArray(ev.raw))
    => sessions = <<>>

\* ------------------------------------------------------------- the poller

\* what GET /status/{jobId} can answer with a 2xx and a JSON body
Data(status, progress, url) ==
    [status |-> status, progress |-> progress, video_url |-> url]

Payloads ==
    { Data("QUEUED", "", Null),
      Data("POLLING_CLIPS", "p", Null),
      Data("UPSCALING", "p", Null),
      Data("COMPLETED", "done", "u1"),
      Data("COMPLETED", "done", "u2"),
      Data("COMPLETED", "done", Null),
      Data("COMPLETED", "done", ""),
      Data("FAILED", "", Null),
      Data("FAILED", "boom", Null) }

\* what the catch branch sees in err.message: the non-2xx throw of line 200,
\* or fetch's own rejection
FailKinds == {"http", "network"}
Reason(kind) == IF kind = "http" THEN "Failed to fetch status" ELSE "Failed to fetch"

\* JavaScript truthiness of a string | null
Truthy(x) == x # Null /\ x # ""

\* data.status.replace(/_/g, " ")
Readable(status) == IF status = "POLLING_CLIPS" THEN "POLLING CLIPS" ELSE status

\* `${data.status}-${data.progress}`
statusKey(data) == data.status \o "-" \o data.progress

NoCompletedMessage == "Video generation completed but no URL provided"
FailedDefault == "Video generation failed"
ConnectionLost == "Connection lost. Please try again."

\* job?.status === "COMPLETED" && job.videoUrl, on the sessions of one render
JobDone(S, sessionId, jobId) ==
    LET i == FindIndex(S, sessionId)
    IN  /\ i # 0
        /\ jobId \in DOMAIN S[i].jobs
        /\ S[i].jobs[jobId].status = "COMPLETED"
        /\ "videoUrl" \in DOMAIN S[i].jobs[jobId]
        /\ Truthy(S[i].jobs[jobId].videoUrl)

\* what one run of the polling effect closes over: the instance (its ref and
\* state setters), the props, failureCount, and through onSuccess the host's
\* sessions of that render
Closure(i, job, session, fc, S) ==
    [inst |-> i, job |-> job, session |-> session, fc |-> fc,
     sawDone |-> JobDone(S, session, job)]

Deps(job, polling, fc) == [job |-> job, isPolling |-> polling, failureCount |-> fc]

\* handleJobSuccess past its null checks: the store it leaves
handleJobSuccess(S, c, videoUrl) ==
    IF c.sawDone
    THEN S
    ELSE appendMessage(
            appendJobStatus(
                updateJob(S, c.session, c.job,
                    [status |-> "COMPLETED", progress |-> "Video ready",
                     videoUrl |-> videoUrl]),
                c.session, c.job, "COMPLETED", "Video ready"),
            c.session, [status |-> "success", jobId |-> c.job, videoUrl |-> videoUrl])

\* handleJobError past its null checks: the store it leaves
handleJobError(S, c, message) ==
    appendMessage(
        appendJobStatus(
            updateJob(S, c.session, c.job, [status |-> "FAILED", progress |-> message]),
            c.session, c.job, "FAILED", message),
        c.session, [status |-> "error", jobId |-> c.job, content |-> message])

Fresh ==
    /\ sessions = <<>>
    /\ activeSessionId = 0
    /\ nextId = [job |-> 0, session |-> 0, clock |-> 0]
    /\ IdleHost
    /\ IdlePoller
    /\ NoGhost
    /\ storage = Persisted(<<>>, 0)

\* the store handleSubmit leaves for session 1 and job 1, with the timeline
\* of n failed polls
StreakSessions(n) ==
    << [NewSession(1, 1, "p1",
            <<Entry("queued", 1, "Job queued", "")>>
            \o [k \in 1..n |-> Entry("retrying", 1, "RETRYING", Reason("http"))])
        EXCEPT !.messages = <<[role |-> "user"], [status |-> "info", jobId |-> 1]>>,
               !.jobId = 1,
               !.jobs = 1 :> [id |-> 1, status |-> "QUEUED",
                              progress |-> "Awaiting generation...",
                              history |-> <<[status |-> "QUEUED",
                                             progress |-> "Awaiting generation..."]>>]] >>

\* job 1 one failure short of the threshold: submitted, mounted, and
\* FailureThreshold - 1 polls failed one after the other, each followed by
\* its re-render; the fetch of the last effect run is in flight
Streak ==
    LET n == FailureThreshold - 1
        c == Closure(1, 1, 1, n, StreakSessions(n))
    IN  /\ sessions = StreakSessions(n)
        /\ activeSessionId = 1
        /\ nextId = [job |-> 1, session |-> 1, clock |-> 1]
        /\ activeJobId = 1
        /\ activeJobSessionId = 1
        /\ isSubmitting = FALSE
        /\ submitSession = 0
        /\ mounted = TRUE
        /\ inst = 1
        /\ pJob = 1
        /\ pSession = 1
        /\ pStatus = <<>>
        /\ isPolling = TRUE
        /\ failureCount = n
        /\ lastStatusRef = <<"">>
        /\ timer = <<c>>
        /\ effDeps = Deps(1, TRUE, n)
        /\ dirty = FALSE
        /\ ctxDirty = FALSE
        /\ inflight = SetToBag({c})
        /\ calls = [j \in 1..MaxJobs |-> <<>>]
        /\ counters = [fetches |-> 1, ops |-> 0]
        /\ consec = [j \in 1..MaxJobs |-> IF j = 1 THEN n ELSE 0]
        /\ lateReq = [j \in 1..MaxJobs |-> FALSE]
        /\ ev = [op |-> "init"]
        /\ storage = Persisted(StreakSessions(n), 1)

\* job 1 just submitted: handleSubmit has run to its end on an empty store,
\* the re-render that mounts StatusPolling is due
Submitted ==
    /\ sessions = StreakSessions(0)
    /\ activeSessionId = 1
    /\ nextId = [job |-> 1, session |-> 1, clock |-> 1]
    /\ activeJobId = 1
    /\ activeJobSessionId = 1
    /\ isSubmitting = FALSE
    /\ submitSession = 0
    /\ mounted = FALSE
    /\ inst = 0
    /\ pJob = 0
    /\ pSession = 0
    /\ pStatus = <<>>
    /\ isPolling = FALSE
    /\ failureCount = 0
    /\ lastStatusRef = <<>>
    /\ timer = <<>>
    /\ effDeps = <<>>
    /\ dirty = FALSE
    /\ ctxDirty = TRUE
    /\ inflight = EmptyBag
    /\ NoGhost
    /\ storage = Persisted(<<>>, 0)

Init == Fresh \/ Streak

CanFetch == counters.fetches < MaxFetches

\* a pollStatus() call that sends nothing
IssueNothing(c) ==
    /\ inflight' = inflight
    /\ counters' = [counters EXCEPT !.fetches = @ + 1]
    /\ lateReq' = lateReq

\* pollStatus() up to its await: the request leaves
IssueFetch(c) ==
    /\ inflight' = inflight (+) SetToBag({c})
    /\ counters' = [counters EXCEPT !.fetches = @ + 1]
    /\ lateReq' = [lateReq EXCEPT ![c.job] = @ \/ calls[c.job] # <<>>]

\* ensureSession
ensureSession ==
    IF activeSessionId # 0 /\ FindIndex(sessions, activeSessionId) # 0
    THEN activeSessionId
    ELSE nextId.session + 1

\* handleSubmit up to its await (a non-blank prompt, the video tool)
SubmitStart ==
    /\ ~isSubmitting
    /\ nextId.job < MaxJobs
    /\ LET sessionId == ensureSession
           created == sessionId # activeSessionId
           S0 == IF created
                 THEN createSession(sessions,
                        NewSession(sessionId, nextId.clock + 1, "p1", <<>>))
                 ELSE sessions
           S1 == updateSession(S0, sessionId, [prompt |-> "p1"])
       IN  /\ sessions' = appendMessage(S1, sessionId, [role |-> "user"])
           /\ activeSessionId' = sessionId
           /\ submitSession' = sessionId
           /\ nextId' = [job |-> nextId.job + 1,
                         session |-> IF created THEN sessionId ELSE nextId.session,
                         clock |-> nextId.clock + 1]
    /\ isSubmitting' = TRUE
    /\ ctxDirty' = TRUE
    /\ UNCHANGED ev
    /\ UNCHANGED storage
    /\ UNCHANGED <<activeJobId, activeJobSessionId, ghostVars>>
    /\ UNCHANGED <<mounted, inst, pJob, pSession, pStatus, isPolling, failureCount,
                   lastStatusRef, timer, effDeps, dirty, inflight>>

\* handleSubmit after the await, response.jobId present
SubmitOk ==
    /\ isSubmitting
    /\ LET j == nextId.job
           sid == submitSession
           S1 == registerJob(sessions, sid,
                    [id |-> j, status |-> "QUEUED",
                     progress |-> "Awaiting generation...", history |-> <<>>])
           S2 == appendJobStatus(S1, sid, j, "QUEUED", "Awaiting generation...")
           S3 == appendStatus(S2, sid, Entry("queued", j, "Job queued", ""))
           S4 == updateSession(S3, sid, [jobId |-> j])
       IN  /\ sessions' = appendMessage(S4, sid, [status |-> "info", jobId |-> j])
           /\ activeJobId' = j
           /\ activeJobSessionId' = sid
    /\ isSubmitting' = FALSE
    /\ submitSession' = 0
    /\ ctxDirty' = TRUE
    /\ UNCHANGED ev
    /\ UNCHANGED storage
    /\ UNCHANGED <<activeSessionId, nextId, ghostVars>>
    /\ UNCHANGED <<mounted, inst, pJob, pSession, pStatus, isPolling, failureCount,
                   lastStatusRef, timer, effDeps, dirty, inflight>>

\* handleSubmit after the await, the request failed or carried no job id
SubmitErr ==
    /\ isSubmitting
    /\ sessions' = appendMessage(sessions, submitSession, [status |-> "error"])
    /\ isSubmitting' = FALSE
    /\ submitSession' = 0
    /\ ctxDirty' = TRUE
    /\ UNCHANGED ev
    /\ UNCHANGED storage
    /\ UNCHANGED <<activeSessionId, activeJobId, activeJobSessionId, nextId, ghostVars>>
    /\ UNCHANGED <<mounted, inst, pJob, pSession, pStatus, isPolling, failureCount,
                   lastStatusRef, timer, effDeps, dirty, inflight>>

\* any other state change of VideoGenerator (setPrompt on a keystroke,
\* handleModelChange, handleBoostSelect): the host renders again
HostRerender ==
    /\ ~ctxDirty
    /\ ctxDirty' = TRUE
    /\ UNCHANGED ev
    /\ UNCHANGED storage
    /\ UNCHANGED <<storeVars, hostVars, ghostVars>>
    /\ UNCHANGED <<mounted, inst, pJob, pSession, pStatus, isPolling, failureCount,
                   lastStatusRef, timer, effDeps, dirty, inflight>>

\* an effect run that sets its interval without the cleanup of the run before
AddInterval(timers, c) == Append(timers, c)

\* the cleanup of the previous effect run clears its interval (line 256), then
\* the new run sets its own (line 253)
RestartInterval(timers, c) == <<c>>

\* the interval fires: setInterval(pollStatus, 3000)
Tick ==
    /\ timer # <<>>
    /\ CanFetch
    /\ \E k \in 1..Len(timer) : IssueFetch(timer[k])
    /\ UNCHANGED ev
    /\ UNCHANGED storage
    /\ UNCHANGED <<storeVars, hostVars, calls, consec>>
    /\ UNCHANGED <<mounted, inst, pJob, pSession, pStatus, isPolling, failureCount,
                   lastStatusRef, timer, effDeps, dirty, ctxDirty>>

\* the commit of a re-render: StatusPolling is mounted while activeJobId and
\* activeJobSessionId are set (video-generator.tsx 595); on a changed jobId
\* the first effect clears the ref; the polling effect is cleaned up and run
\* again when one of its dependencies changed (the callbacks and the store
\* functions are new objects on every host render)
Render ==
    /\ dirty \/ ctxDirty
    /\ LET shouldMount == activeJobId # 0 /\ activeJobSessionId # 0
       IN  \/ /\ ~shouldMount
              /\ mounted' = FALSE
              /\ timer' = <<>>
              /\ pJob' = 0
              /\ pSession' = 0
              /\ pStatus' = <<>>
              /\ isPolling' = FALSE
              /\ failureCount' = 0
              /\ effDeps' = <<>>
              /\ UNCHANGED <<inst, lastStatusRef, inflight, counters, lateReq>>
           \/ /\ shouldMount
              /\ ~mounted
              /\ CanFetch
              /\ LET c == Closure(inst + 1, activeJobId, activeJobSessionId, 0, sessions)
                 IN  /\ mounted' = TRUE
                     /\ inst' = inst + 1
                     /\ pJob' = activeJobId
                     /\ pSession' = activeJobSessionId
                     /\ pStatus' = <<>>
                     /\ isPolling' = TRUE
                     /\ failureCount' = 0
                     /\ lastStatusRef' = Append(lastStatusRef, "")
                     /\ timer' = RestartInterval(timer, c)
                     /\ effDeps' = Deps(activeJobId, TRUE, 0)
                     /\ IssueFetch(c)
           \/ /\ shouldMount
              /\ mounted
              /\ LET jobChanged == activeJobId # pJob
                     now == Deps(activeJobId, isPolling, failureCount)
                     rerun == ctxDirty \/ effDeps # now
                     c == Closure(inst, activeJobId, activeJobSessionId,
                                  failureCount, sessions)
                 IN  /\ pJob' = activeJobId
                     /\ pSession' = activeJobSessionId
                     /\ lastStatusRef' = IF jobChanged
                                         THEN [lastStatusRef EXCEPT ![inst] = ""]
                                         ELSE lastStatusRef
                     /\ IF rerun /\ isPolling
                        THEN /\ CanFetch
                             /\ timer' = RestartInterval(timer, c)
                             /\ effDeps' = now
                             /\ IssueFetch(c)
                        ELSE IF rerun
                        THEN /\ timer' = <<>>
                             /\ effDeps' = now
                             /\ UNCHANGED <<inflight, counters, lateReq>>
                        ELSE UNCHANGED <<timer, effDeps, inflight, counters, lateReq>>
                     /\ UNCHANGED <<mounted, inst, pStatus, isPolling, failureCount>>
    /\ dirty' = FALSE
    /\ ctxDirty' = FALSE
    /\ storage' = Persisted(sessions, activeSessionId)
    /\ UNCHANGED ev
    /\ UNCHANGED <<storeVars, hostVars, calls, consec>>

\* the poller of closure c was cancelled: its job reached a terminal callback,
\* its instance is gone, or the instance now polls another job
Cancelled(c) ==
    \/ calls[c.job] # <<>>
    \/ ~mounted
    \/ c.inst # inst
    \/ c.job # pJob

\* statusKey !== lastStatusRef.current
KeyChanged(key, ref) == key # ref

\* lastStatusRef.current = statusKey
RefAfterAppend(key, ref) == key

\* a COMPLETED branch without the if (data.video_url) test
IsCompletedAnyUrl(data) == data.status = "COMPLETED"

\* data.status === "COMPLETED" with if (data.video_url)
IsCompletedWithUrl(data) == data.status = "COMPLETED" /\ Truthy(data.video_url)

IsCompletedNoUrl(data) == data.status = "COMPLETED" /\ ~Truthy(data.video_url)

\* the ids of STATUS_PHASES
STATUS_PHASES ==
    {"QUEUED", "ANALYZING_SCRIPT", "GENERATING_PROMPTS", "INVOKING_BEDROCK",
     "POLLING_CLIPS", "COMPLETED"}

\* a FAILED test that takes every status outside the phase list for a failure
IsFailedOrUnknown(data) == data.status \notin STATUS_PHASES

\* data.status === "FAILED"
IsFailed(data) == data.status = "FAILED"

\* updateSession(jobId, { videoUrl: data.video_url })
RecordUrl(S, c, url) == updateSession(S, c.session, [videoUrl |-> url])

\* a failure message that ignores the server's progress text
FailureMessageDefault(data) == FailedDefault

\* data.progress || "Video generation failed"
FailureMessage(data) == IF data.progress # "" THEN data.progress ELSE FailedDefault

\* a catch branch that does not count the failure
KeepFailures(fc) == fc

\* const nextFailures = failureCount + 1
NextFailures(fc) == fc + 1

\* nextFailures > 10
Exceeded(n) == n > FailureThreshold

\* the state setters of a closure act on its instance while it is mounted
Alive(c) == mounted /\ c.inst = inst

\* pollStatus from a 2xx response with body data to its end (lines 202-236)
HandleOk(c, data) ==
    /\ BagIn(c, inflight)
    /\ LET key == statusKey(data)
           fresh == KeyChanged(key, lastStatusRef[c.inst])
           S1 == IF fresh
                 THEN appendStatus(sessions, c.session,
                        Entry("status", c.job, Readable(data.status), data.progress))
                 ELSE sessions
           good == IsCompletedWithUrl(data)
           bad == IsCompletedNoUrl(data)
           failed == ~good /\ ~bad /\ IsFailed(data)
           terminal == good \/ bad \/ failed
           S2 == IF good
                 THEN handleJobSuccess(RecordUrl(S1, c, data.video_url), c, data.video_url)
                 ELSE IF bad
                 THEN handleJobError(S1, c, NoCompletedMessage)
                 ELSE IF failed
                 THEN appendStatus(handleJobError(S1, c, FailureMessage(data)), c.session,
                        Entry("failed", c.job, "FAILED", FailureMessage(data)))
                 ELSE S1
           call == IF good THEN [kind |-> "success", arg |-> data.video_url]
                   ELSE IF bad THEN [kind |-> "error", arg |-> NoCompletedMessage]
                   ELSE [kind |-> "error", arg |-> FailureMessage(data)]
       IN  /\ sessions' = S2
           /\ lastStatusRef' = IF fresh
                               THEN [lastStatusRef EXCEPT ![c.inst] =
                                        RefAfterAppend(key, lastStatusRef[c.inst])]
                               ELSE lastStatusRef
           /\ IF Alive(c)
              THEN /\ pStatus' = <<data>>
                   /\ failureCount' = 0
                   /\ isPolling' = (isPolling /\ ~terminal)
                   /\ dirty' = TRUE
              ELSE UNCHANGED <<pStatus, failureCount, isPolling, dirty>>
           /\ IF terminal
              THEN activeJobId' = 0 /\ activeJobSessionId' = 0
              ELSE UNCHANGED <<activeJobId, activeJobSessionId>>
           /\ ctxDirty' = (ctxDirty \/ fresh \/ terminal)
           /\ calls' = IF terminal THEN [calls EXCEPT ![c.job] = Append(@, call)] ELSE calls
           /\ consec' = [consec EXCEPT ![c.job] = 0]
           /\ UNCHANGED ev
           /\ UNCHANGED storage
    /\ inflight' = inflight (-) SetToBag({c})
    /\ UNCHANGED counters
    /\ UNCHANGED <<activeSessionId, isSubmitting, submitSession, nextId>>
    /\ UNCHANGED <<mounted, inst, pJob, pSession, timer, effDeps, lateReq>>

\* pollStatus from a thrown fetch, a non-2xx response or an unreadable body
\* to its end (the catch branch, lines 237-250)
HandleFail(c, kind) ==
    /\ BagIn(c, inflight)
    /\ LET S1 == appendStatus(sessions, c.session,
                    Entry("retrying", c.job, "RETRYING", Reason(kind)))
           nextFailures == NextFailures(c.fc)
           lost == Exceeded(nextFailures)
       IN  /\ sessions' = IF lost THEN handleJobError(S1, c, ConnectionLost) ELSE S1
           /\ IF Alive(c)
              THEN /\ failureCount' = nextFailures
                   /\ isPolling' = (isPolling /\ ~lost)
                   /\ dirty' = TRUE
              ELSE UNCHANGED <<failureCount, isPolling, dirty>>
           /\ IF lost
              THEN activeJobId' = 0 /\ activeJobSessionId' = 0
              ELSE UNCHANGED <<activeJobId, activeJobSessionId>>
           /\ calls' = IF lost
                       THEN [calls EXCEPT ![c.job] =
                                Append(@, [kind |-> "error", arg |-> ConnectionLost])]
                       ELSE calls
           /\ consec' = [consec EXCEPT ![c.job] = @ + 1]
           /\ UNCHANGED ev
           /\ UNCHANGED storage
    /\ ctxDirty' = TRUE
    /\ inflight' = inflight (-) SetToBag({c})
    /\ UNCHANGED counters
    /\ UNCHANGED <<activeSessionId, isSubmitting, submitSession, nextId>>
    /\ UNCHANGED <<mounted, inst, pJob, pSession, pStatus, lastStatusRef, timer,
                   effDeps, lateReq>>

Next ==
    \/ SubmitStart
    \/ SubmitOk
    \/ SubmitErr
    \/ HostRerender
    \/ Tick
    \/ Render
    \/ \E c \in BagToSet(inflight), data \in Payloads : HandleOk(c, data)
    \/ \E c \in BagToSet(inflight), kind \in FailKinds : HandleFail(c, kind)

Spec == Init /\ [][Next]_vars

\* one job from its submission to its end, no further submission
PollInit == Submitted \/ Streak

PollNext ==
    \/ HostRerender
    \/ Tick
    \/ Render
    \/ \E c \in BagToSet(inflight), data \in Payloads : HandleOk(c, data)
    \/ \E c \in BagToSet(inflight), kind \in FailKinds : HandleFail(c, kind)

PollSpec == PollInit /\ [][PollNext]_vars

\* one session whose submissions follow each other while a job is polled; the
\* server answers with a progress answer or a result
SwitchAnswers == {Data("QUEUED", "", Null), Data("COMPLETED", "done", "u1")}

SwitchNext ==
    \/ SubmitStart
    \/ SubmitOk
    \/ SubmitErr
    \/ HostRerender
    \/ Tick
    \/ Render
    \/ \E c \in BagToSet(inflight), data \in SwitchAnswers : HandleOk(c, data)
    \/ \E c \in BagToSet(inflight) : HandleFail(c, "http")

SwitchSpec == Submitted /\ [][SwitchNext]_vars

\* a fetch in flight settles: the server answers it or it fails
Settle ==
    \E c \in BagToSet(inflight) :
        \/ \E data \in SwitchAnswers : HandleOk(c, data)
        \/ HandleFail(c, "http")

\* the same session under fair scheduling: an armed interval fires, a fetch
\* in flight settles, a pending re-render is committed
LiveSpec ==
    /\ SwitchSpec
    /\ WF_vars(Tick)
    /\ WF_vars(Settle)
    /\ WF_vars(Render)

\* ------------------------------------------------------------------ claims

SessionOf(S, id) == S[FindIndex(S, id)]

JobOf(S, sessionId, jobId) == SessionOf(S, sessionId).jobs[jobId]

SuccessCall(url) == [kind |-> "success", arg |-> url]

ErrorCall(message) == [kind |-> "error", arg |-> message]

\* no interval of the poller fetches for job j
PollingStopped(j) == timer = <<>> \/ timer[1].job # j

Quiescent == ~dirty /\ ~ctxDirty

\* the last (status, progress) entry the timeline holds for job j
StatusEntries(S, sessionId, j) ==
    SelectSeq(SessionOf(S, sessionId).statusHistory,
              LAMBDA e : e.kind = "status" /\ e.job = j)

\* C1: for every job the poller makes at most one onSuccess or onError call.
C1_AtMostOneTerminal == \A j \in 1..MaxJobs : Len(calls[j]) <= 1

\* C2: a successful poll with a non-terminal (status, progress) pair appends
\* one timeline entry when the pair differs from the last pair emitted for
\* that job, and appends nothing when it is that pair again (responses of the
\* job being polled; late responses of a cancelled poller are C6's subject).
C2_Dedup ==
    [][\A c \in BagToSet(inflight), data \in Payloads :
        (/\ HandleOk(c, data)
         /\ ~Cancelled(c)
         /\ data.status \notin {"COMPLETED", "FAILED"})
        => LET before == SessionOf(sessions, c.session).statusHistory
               after == SessionOf(sessions', c.session).statusHistory
               emitted == StatusEntries(sessions, c.session, c.job)
               entry == Entry("status", c.job, Readable(data.status), data.progress)
           IN  IF emitted # <<>> /\ Last(emitted) = entry
               THEN after = before
               ELSE after = Append(before, entry)]_vars

\* C3: once 11 polls of a job have failed in a row, onError was called exactly
\* once with the connection-lost message and no fetch was issued afterwards.
C3_LostOnceAtEleven ==
    \A j \in 1..MaxJobs :
        consec[j] > FailureThreshold
        => /\ Len(SelectSeq(calls[j], LAMBDA x : x = ErrorCall(ConnectionLost))) = 1
           /\ ~lateReq[j]

\* C4: the connection-lost failure is emitted only when at least 11 polls of
\* the job failed with no successful poll between them.
C4_LostOnlyAfterEleven ==
    [][\A j \in 1..MaxJobs :
        (/\ Len(calls'[j]) = Len(calls[j]) + 1
         /\ Last(calls'[j]) = ErrorCall(ConnectionLost))
        => consec'[j] > FailureThreshold]_vars

\* C5: at most one status request per job is in flight.
C5_OneInFlight ==
    \A c \in BagToSet(inflight) :
        /\ CopiesIn(c, inflight) = 1
        /\ \A d \in BagToSet(inflight) : d.job = c.job => d = c

\* C6: a response that arrives after its poller was cancelled changes neither
\* the store nor the failure counter and calls neither callback.
C6_LateDiscarded ==
    [][\A c \in BagToSet(inflight) :
        (/\ Cancelled(c)
         /\ \/ \E data \in Payloads : HandleOk(c, data)
            \/ \E kind \in FailKinds : HandleFail(c, kind))
        => /\ sessions' = sessions
           /\ failureCount' = failureCount
           /\ calls' = calls]_vars

\* C7: a poll answered COMPLETED with a non-empty video_url U leaves onSuccess
\* invoked once for the job, with U, records U as the videoUrl of the session
\* and of the job, and stops polling.
C7_CompletedWithUrl ==
    [][\A c \in BagToSet(inflight), data \in Payloads :
        (/\ HandleOk(c, data)
         /\ data.status = "COMPLETED"
         /\ Truthy(data.video_url))
        => /\ Len(SelectSeq(calls'[c.job], LAMBDA x : x.kind = "success")) = 1
           /\ Last(calls'[c.job]) = SuccessCall(data.video_url)
           /\ SessionOf(sessions', c.session).videoUrl = data.video_url
           /\ JobOf(sessions', c.session, c.job).videoUrl = data.video_url
           /\ Alive(c) => ~isPolling']_vars

JobUrl(job) == IF "videoUrl" \in DOMAIN job THEN job.videoUrl ELSE Null

TerminalJob(job) == job.status \in {"COMPLETED", "FAILED"}

\* C12: once a job's persisted status is COMPLETED or FAILED, no later step
\* changes that job's status, progress or result URL.
C12_TerminalImmutable ==
    [][\A i \in 1..Len(sessions) : \A j \in DOMAIN sessions[i].jobs :
        TerminalJob(sessions[i].jobs[j])
        => LET old == sessions[i].jobs[j]
               new == JobOf(sessions', sessions[i].id, j)
           IN  /\ new.status = old.status
               /\ new.progress = old.progress
               /\ JobUrl(new) = JobUrl(old)]_vars

\* C13: however often the success of a job is delivered to handleJobSuccess,
\* the job's history holds at most one COMPLETED entry and the session at most
\* one success message for that job.
C13_SuccessAppliedOnce ==
    \A i \in 1..Len(sessions) : \A j \in DOMAIN sessions[i].jobs :
        /\ Len(SelectSeq(sessions[i].jobs[j].history,
                         LAMBDA h : h.status = "COMPLETED")) <= 1
        /\ Len(SelectSeq(sessions[i].messages,
                         LAMBDA m : /\ "status" \in DOMAIN m
                                    /\ m.status = "success"
                                    /\ m.jobId = j)) <= 1

\* onSuccess ran for job j: a poll of j was answered COMPLETED with a URL
SucceededPoll(j) == \E x \in Range(calls[j]) : x.kind = "success"

\* C14: a job's result URL and its session's videoUrl are set if and only if a
\* poll of that job was answered COMPLETED with a URL, and a URL once set is
\* never changed.
C14_UrlSetOnce ==
    /\ [](\A i \in 1..Len(sessions) : \A j \in DOMAIN sessions[i].jobs :
            /\ JobUrl(sessions[i].jobs[j]) # Null <=> SucceededPoll(j)
            /\ SucceededPoll(j) => sessions[i].videoUrl # Null)
    /\ [](\A i \in 1..Len(sessions) :
            sessions[i].videoUrl # Null
            => \E j \in DOMAIN sessions[i].jobs : SucceededPoll(j))
    /\ [][\A i \in 1..Len(sessions) :
            /\ sessions[i].videoUrl # Null
               => SessionOf(sessions', sessions[i].id).videoUrl = sessions[i].videoUrl
            /\ \A j \in DOMAIN sessions[i].jobs :
                  JobUrl(sessions[i].jobs[j]) # Null
                  => JobUrl(JobOf(sessions', sessions[i].id, j))
                        = JobUrl(sessions[i].jobs[j])]_vars

\* the effect run of this step started polling a job: the component mounted,
\* or its jobId changed
Started == mounted' /\ (~mounted \/ pJob' # pJob)

\* C18: the step that starts the poller for a job sets the interval and sends
\* one status fetch for that job at once, before any tick of that interval.
C18_ImmediateFetch ==
    [][(Started /\ isPolling')
        => /\ timer' # <<>>
           /\ timer'[1].job = pJob'
           /\ inflight' = inflight (+) SetToBag({timer'[1]})
           /\ counters'.fetches = counters.fetches + 1]_vars

\* the poller of job 1 has just mounted: its first fetch is out and no tick
\* has fired yet
C18_Witness ==
    /\ mounted
    /\ pJob = 1
    /\ pStatus = <<>>
    /\ timer # <<>>
    /\ counters.fetches = 1
    /\ inflight = SetToBag({timer[1]})
    /\ timer[1].fc = 0

\* C19: after the immediate fetch of the start, a status fetch is only ever
\* sent by a tick of the interval.
C19_FetchOnlyOnTick ==
    [][counters'.fetches # counters.fetches => (Started \/ Tick)]_vars

\* C20: a failed poll (network error, unreadable body or non-2xx) that leaves
\* the job with at most 10 failures in a row appends one RETRYING entry with
\* the reason, calls neither onSuccess nor onError, and leaves polling on.
C20_RetryBelowThreshold ==
    [][\A c \in BagToSet(inflight), kind \in FailKinds :
        (HandleFail(c, kind) /\ consec'[c.job] <= FailureThreshold)
        => /\ SessionOf(sessions', c.session).statusHistory
                = SliceLast(Append(SessionOf(sessions, c.session).statusHistory,
                                   Entry("retrying", c.job, "RETRYING", Reason(kind))),
                            HistoryCap)
           /\ JobOf(sessions', c.session, c.job) = JobOf(sessions, c.session, c.job)
           /\ calls' = calls
           /\ isPolling' = isPolling]_vars

\* the message the FAILED branch reports for a response
ReportedFailure(data) == IF data.progress = "" THEN FailedDefault ELSE data.progress

\* C21: handling a poll answered FAILED calls onError with the server's
\* progress text, or with "Video generation failed" when that text is empty,
\* leaves a FAILED entry with that message as the last of the session's
\* timeline and no RETRYING entry, clears isPolling and the failure counter,
\* and the interval is gone once the pending re-render has run.
C21_FailedSurfaced ==
    /\ [][\A c \in BagToSet(inflight), data \in Payloads :
            (HandleOk(c, data) /\ data.status = "FAILED")
            => LET before == SessionOf(sessions, c.session).statusHistory
                   after == SessionOf(sessions', c.session).statusHistory
                   retries(h) == Len(SelectSeq(h, LAMBDA e : e.kind = "retrying"))
               IN  /\ calls'[c.job] = Append(calls[c.job], ErrorCall(ReportedFailure(data)))
                   /\ Len(after) > Len(before)
                   /\ Last(after) = Entry("failed", c.job, "FAILED", ReportedFailure(data))
                   /\ retries(after) = retries(before)
                   /\ Alive(c) => (~isPolling' /\ failureCount' = 0)]_vars
    /\ [](\A j \in 1..MaxJobs :
            (/\ Quiescent
             /\ \E data \in Payloads :
                    data.status = "FAILED" /\ ErrorCall(ReportedFailure(data)) \in Range(calls[j]))
            => PollingStopped(j))

\* a FAILED answer without progress text was the one signal of job 1: onError
\* got the default message, the timeline ends with the FAILED entry, and the
\* re-render has taken the poller away
C21_Witness ==
    /\ calls[1] = <<ErrorCall(FailedDefault)>>
    /\ Last(SessionOf(sessions, 1).statusHistory) = Entry("failed", 1, "FAILED", FailedDefault)
    /\ JobOf(sessions, 1, 1).status = "FAILED"
    /\ Quiescent
    /\ ~mounted
    /\ timer = <<>>

\* the timeline entries the poller wrote for job j, over all sessions
PollerEntries(S, j) ==
    [i \in 1..Len(S) |->
        SelectSeq(S[i].statusHistory,
                  LAMBDA e : e.job = j /\ e.kind \in {"status", "failed", "retrying"})]

\* C22: once onSuccess or onError was called for a job, no status request is
\* sent for that job and the poller appends no timeline entry for it.
C22_SilentAfterTerminal ==
    [][\A j \in 1..MaxJobs :
        calls[j] # <<>>
        => /\ ~lateReq'[j]
           /\ PollerEntries(sessions', j) = PollerEntries(sessions, j)]_vars

\* this step ends the polling of the mounted instance or signals a terminal
\* outcome
Stops == (isPolling /\ ~isPolling' /\ mounted') \/ calls' # calls

\* C23: handling a 2xx answer whose status is neither COMPLETED nor FAILED
\* calls no callback and leaves isPolling, the active job and the interval as
\* they are; a step ends polling or signals a terminal outcome only when it
\* handles a COMPLETED or FAILED answer, or a failure that takes the
\* component's failure count past 10.
C23_OtherStatusKeepsPolling ==
    /\ [][\A c \in BagToSet(inflight), data \in Payloads :
            (HandleOk(c, data) /\ data.status \notin {"COMPLETED", "FAILED"})
            => /\ calls' = calls
               /\ isPolling' = isPolling
               /\ activeJobId' = activeJobId
               /\ activeJobSessionId' = activeJobSessionId
               /\ mounted' = mounted
               /\ timer' = timer]_vars
    /\ [][Stops
            => \/ \E c \in BagToSet(inflight), data \in Payloads :
                    HandleOk(c, data) /\ data.status \in {"COMPLETED", "FAILED"}
               \/ \E c \in BagToSet(inflight), kind \in FailKinds :
                    HandleFail(c, kind) /\ c.fc + 1 > FailureThreshold]_vars

\* job 1 was answered with a status outside the phase list: it is shown, no
\* callback ran, and after the re-render the poller is still polling
C23_Witness ==
    /\ pStatus # <<>>
    /\ pStatus[1].status \notin STATUS_PHASES \cup {"FAILED"}
    /\ mounted
    /\ pJob = 1
    /\ isPolling
    /\ calls[1] = <<>>
    /\ Quiescent
    /\ timer # <<>>
    /\ timer[1].job = 1

\* C24: at most one interval is armed at any time, and it belongs to the
\* mounted StatusPolling instance and to the job and session that instance
\* was rendered with: no other job of the session has a poller or a timer.
C24_OnePollerPerSession ==
    /\ Len(timer) <= 1
    /\ \A k \in 1..Len(timer) :
          /\ mounted
          /\ timer[k].inst = inst
          /\ timer[k].job = pJob
          /\ timer[k].session = pSession

\* job 2 was submitted to session 1 while job 1 was polled (a fetch of job 1
\* is still out): the one interval now belongs to job 2, and job 1, not yet
\* terminal, has none
C24_Witness ==
    /\ Len(sessions) = 1
    /\ DOMAIN sessions[1].jobs = {1, 2}
    /\ ~TerminalJob(sessions[1].jobs[1])
    /\ mounted
    /\ inst = 1
    /\ pJob = 2
    /\ pSession = 1
    /\ Len(timer) = 1
    /\ timer[1].job = 2
    /\ calls[1] = <<>>
    /\ \E c \in BagToSet(inflight) : c.job = 1

\* C25: an appendStatus or updateSession call leaves the collection's length
\* and the ids at their places, leaves every session with another id as it
\* was, and leaves the whole collection as it was when no session has the id.
C25_OnlyTargetChanges ==
    [][ev'.op \in {"appendStatus", "updateSession"}
        => /\ SessionIds(sessions') = SessionIds(sessions)
           /\ \A i \in 1..Len(sessions) :
                 sessions[i].id # ev'.id => sessions'[i] = sessions[i]
           /\ FindIndex(sessions, ev'.id) = 0 => sessions' = sessions]_vars

\* updateSession has just given the first of two sessions its videoUrl and
\* the second has none
C25_Witness ==
    /\ ev.op = "updateSession"
    /\ Len(sessions) = 2
    /\ sessions[1].id = ev.id
    /\ sessions[1].videoUrl = "u1"
    /\ sessions[2].videoUrl = Null

\* C26: once the commit that follows the store calls has run, the item under
\* ACTIVE_KEY holds the active id when there is one and is absent when the
\* pointer is null, whatever the stored collection is; createSession leaves
\* the session it created or merged as the active one; appendStatus and
\* updateSession leave the pointer as it is, setActiveSession the collection.
C26_ActivePointerPersisted ==
    /\ [](~ctxDirty =>
            /\ activeSessionId # 0 => storage.active = <<activeSessionId>>
            /\ activeSessionId = 0 => storage.active = <<>>)
    /\ [][ev'.op = "createSession"
            => /\ activeSessionId' = ev'.id
               /\ \E i \in 1..Len(sessions') : sessions'[i].id = ev'.id]_vars
    /\ [][ev'.op \in {"appendStatus", "updateSession"}
            => activeSessionId' = activeSessionId]_vars
    /\ [][ev'.op = "setActiveSession" => sessions' = sessions]_vars

\* session 2 was created and the commit has run: the pointer and its item
\* name session 2, which the storage the provider started on did not
C26_Witness ==
    /\ ev.op = "persist"
    /\ ~ctxDirty
    /\ activeSessionId = 2
    /\ storage.active = <<2>>
    /\ WellFormed(sessions)
    /\ \E i \in 1..Len(sessions) : sessions[i].id = 2 /\ sessions[i].createdAt > 2

\* C27: handling a failed fetch leaves the status the component shows and the
\* last-emitted key as they were, adds one RETRYING entry to the session's
\* timeline and sets the failure counter to one more than the handler's; when
\* the step signals nothing, the rest of the store, isPolling and the active
\* job are as before.
C27_FailureKeepsStatus ==
    [][\A c \in BagToSet(inflight), kind \in FailKinds :
        HandleFail(c, kind)
        => LET before == SessionOf(sessions, c.session)
               after == SessionOf(sessions', c.session)
               entry == Entry("retrying", c.job, "RETRYING", Reason(kind))
           IN  /\ pStatus' = pStatus
               /\ lastStatusRef' = lastStatusRef
               /\ after.statusHistory
                    = SliceLast(Append(before.statusHistory, entry), HistoryCap)
               /\ Alive(c) => failureCount' = c.fc + 1
               /\ calls' = calls
                  => /\ after = [before EXCEPT !.statusHistory = after.statusHistory]
                     /\ Len(sessions') = Len(sessions)
                     /\ \A i \in 1..Len(sessions) :
                           sessions[i].id # c.session => sessions'[i] = sessions[i]
                     /\ isPolling' = isPolling
                     /\ activeJobId' = activeJobId]_vars

\* a poll failed after POLLING_CLIPS was shown: the component still shows
\* POLLING_CLIPS, the key is still that pair, the timeline ends with RETRYING
C27_Witness ==
    /\ mounted
    /\ pJob = 1
    /\ pStatus = <<Data("POLLING_CLIPS", "p", Null)>>
    /\ lastStatusRef[inst] = statusKey(Data("POLLING_CLIPS", "p", Null))
    /\ failureCount = 1
    /\ Last(SessionOf(sessions, 1).statusHistory).kind = "retrying"
    /\ calls[1] = <<>>

\* the fetches the model allows are used up
BudgetSpent == counters.fetches >= MaxFetches

\* job j got its one terminal signal and its record is COMPLETED or FAILED
Ended(j) ==
    /\ Len(calls[j]) = 1
    /\ \E i \in 1..Len(sessions) :
          j \in DOMAIN sessions[i].jobs /\ TerminalJob(sessions[i].jobs[j])

\* C28: under fair ticks, fetch completions and re-renders, a job whose
\* polling has started gets its terminal signal and a COMPLETED or FAILED
\* record (or the fetches the model allows run out first), also when the
\* session takes further submissions meanwhile.
C28_EveryJobEnds ==
    \A j \in 1..MaxJobs :
        (mounted /\ pJob = j /\ isPolling) ~> (Ended(j) \/ BudgetSpent)

\* C29 as stated: whenever the collection holds sessions, it is ordered by
\* createdAt descending.
C29_AlwaysNewestFirst == WellFormed(sessions) => SortedDesc(sessions)

\* C29, amended: a load hands the sessions back newest first; appendStatus,
\* updateSession and createSession on an unseen id keep a collection that is
\* newest first that way (the new session goes in front); createSession on an
\* id already present keeps every session at its place, whatever createdAt the
\* merge gives it.
C29_OrderKeptExceptMerge ==
    /\ []((ev.op \in {"boot", "restart"} /\ WellFormed(sessions))
            => SortedDesc(sessions))
    /\ [][(/\ ev'.op \in {"appendStatus", "updateSession", "createSession"}
           /\ WellFormed(sessions)
           /\ SortedDesc(sessions))
          => IF ev'.op = "createSession" /\ FindIndex(sessions, ev'.id) # 0
             THEN SessionIds(sessions') = SessionIds(sessions)
             ELSE SortedDesc(sessions')]_vars

\* two sessions created since the start, the later one in front of the
\* earlier one
C29_Witness ==
    /\ ev.op = "createSession"
    /\ Len(sessions) = 2
    /\ WellFormed(sessions)
    /\ sessions[1].id = ev.id
    /\ sessions[1].createdAt = 4
    /\ sessions[2].createdAt = 3

\* the collection holds a session with this id
HasSession(S, id) == \E i \in 1..Len(S) : "id" \in DOMAIN S[i] /\ S[i].id = id

\* C30: the active-session pointer is null or the id of a session of the
\* collection.
C30_NoDanglingPointer == activeSessionId = 0 \/ HasSession(sessions, activeSessionId)

\* the mounted StatusPolling instance is rendered with another jobId
JobChanged == mounted /\ mounted' /\ pJob' # pJob

\* C31: when the jobId of a mounted StatusPolling instance changes, the new
\* job is polled from a failure count of zero, an empty last-emitted key and
\* with polling on.
C31_FreshStatePerJob ==
    [][JobChanged
        => /\ failureCount' = 0
           /\ lastStatusRef'[inst'] = ""
           /\ isPolling'
           /\ timer' # <<>>
           /\ \A k \in 1..Len(timer') : timer'[k].job = pJob' /\ timer'[k].fc = 0]_vars

\* ------------------------------------------------- the guards of handleSubmit
\* A prompt is the sequence of its characters.
Whitespace == {" ", "\t", "\n"}

RECURSIVE TrimStart(_)
TrimStart(s) == IF s # <<>> /\ Head(s) \in Whitespace THEN TrimStart(Tail(s)) ELSE s

RECURSIVE TrimEnd(_)
TrimEnd(s) ==
    IF s # <<>> /\ s[Len(s)] \in Whitespace THEN TrimEnd(SubSeq(s, 1, Len(s) - 1)) ELSE s

\* String.prototype.trim
trim(s) == TrimEnd(TrimStart(s))

\* the prompts typed into the input: empty, blank, plain and padded
Prompts == {<<>>, <<"\n", " ">>, <<"p">>, <<" ", "p", "\t">>}

\* a handleSubmit that only looks at isSubmitting
RefusedBusyOnly(submitting, prompt) == submitting

\* the two early returns of handleSubmit (lines 318 and 320-324)
Refused(submitting, prompt) == submitting \/ trim(prompt) = <<>>

\* handleSubmit called with the prompt of the input, up to its await or to
\* its early return (the video tool); ev keeps how the call ended
handleSubmit(prompt) ==
    /\ Refused(isSubmitting, prompt) \/ nextId.job < MaxJobs
    /\ IF Refused(isSubmitting, prompt)
       THEN /\ ev' = [op |-> "handleSubmit",
                      outcome |-> IF isSubmitting THEN "busy" ELSE "blank"]
            /\ ctxDirty' = (ctxDirty \/ ~isSubmitting)
            /\ UNCHANGED <<storeVars, hostVars>>
       ELSE /\ LET trimmedPrompt == trim(prompt)
                   sessionId == ensureSession
                   created == sessionId # activeSessionId
                   S0 == IF created
                         THEN createSession(sessions,
                                NewSession(sessionId, nextId.clock + 1,
                                           trimmedPrompt, <<>>))
                         ELSE sessions
                   S1 == updateSession(S0, sessionId, [prompt |-> trimmedPrompt])
               IN  /\ sessions' = appendMessage(S1, sessionId, [role |-> "user"])
                   /\ activeSessionId' = sessionId
                   /\ submitSession' = sessionId
                   /\ nextId' = [job |-> nextId.job + 1,
                                 session |-> IF created THEN sessionId
                                             ELSE nextId.session,
                                 clock |-> nextId.clock + 1]
            /\ isSubmitting' = TRUE
            /\ ctxDirty' = TRUE
            /\ ev' = [op |-> "handleSubmit", outcome |-> "sent"]
            /\ UNCHANGED <<activeJobId, activeJobSessionId>>
    /\ UNCHANGED storage
    /\ UNCHANGED ghostVars
    /\ UNCHANGED <<mounted, inst, pJob, pSession, pStatus, isPolling, failureCount,
                   lastStatusRef, timer, effDeps, dirty, inflight>>

\* the composer used from an empty store: every call of handleSubmit, the two
\* ends of its request, and the poller of the jobs it creates
SubmitNext ==
    \/ \E prompt \in Prompts : handleSubmit(prompt)
    \/ SubmitOk
    \/ SubmitErr
    \/ HostRerender
    \/ Tick
    \/ Render
    \/ \E c \in BagToSet(inflight), data \in SwitchAnswers : HandleOk(c, data)

SubmitSpec == Fresh /\ [][SubmitNext]_vars

\* the step registers no job in any session
NoJobRegistered ==
    /\ Len(sessions') = Len(sessions)
    /\ \A i \in 1..Len(sessions) :
          /\ DOMAIN sessions'[i].jobs = DOMAIN sessions[i].jobs
          /\ sessions'[i].jobId = sessions[i].jobId

\* the job of the mounted poller is a job registered in its session
PollsRegisteredJob ==
    \E i \in 1..Len(sessions) :
        sessions[i].id = pSession /\ pJob \in DOMAIN sessions[i].jobs

\* C32: a handleSubmit call made while isSubmitting or with a blank prompt
\* leaves the sessions, their messages and jobs, the active job and the
\* submission in flight as they are and sends nothing; a submission that
\* fails registers no job, leaves the poller as it is and sets isSubmitting
\* to false; a poller is only ever started for a registered job.
C32_GuardedSubmit ==
    [][/\ \A prompt \in Prompts :
            (handleSubmit(prompt) /\ (isSubmitting \/ trim(prompt) = <<>>))
                => UNCHANGED <<storeVars, hostVars, inflight, counters, mounted,
                               pJob, timer>>
       /\ SubmitErr
            => /\ NoJobRegistered
               /\ UNCHANGED <<activeJobId, activeJobSessionId>>
               /\ UNCHANGED <<mounted, pJob, pSession, isPolling, timer, inflight,
                              counters>>
               /\ ~isSubmitting'
       /\ (mounted' /\ (~mounted \/ pJob' # pJob)) => PollsRegisteredJob'
       /\ (isSubmitting /\ ~isSubmitting') => submitSession' = 0]_vars

\* a submission failed after a second call was refused while it was in
\* flight: the session holds the error message and no job, nothing is polled
C32_Witness ==
    /\ ev = [op |-> "handleSubmit", outcome |-> "busy"]
    /\ ~isSubmitting
    /\ Len(sessions) = 1
    /\ sessions[1].prompt = <<"p">>
    /\ DOMAIN sessions[1].jobs = {}
    /\ Last(sessions[1].messages) = [status |-> "error"]
    /\ activeJobId = 0
    /\ ~mounted
    /\ inflight = EmptyBag

====
